---- MODULE Spec2Model ----
(***************************************************************************)
(* Model of the SmartMart desktop shell's backend supervisor               *)
(* (desktop/src-tauri/src/backend.rs) and of the application that owns it  *)
(* (desktop/src-tauri/src/main.rs).                                        *)
(*                                                                         *)
(* BackendProcess keeps one optional child-process handle.  main() creates *)
(* it, starts it once in release builds, wraps it in a Mutex and hands it  *)
(* to tauri; the commands get_backend_status and restart_backend run       *)
(* concurrently on tauri's task pool.                                      *)
(*                                                                         *)
(* Two specifications share the actions:                                   *)
(*   Spec     the application exactly as main.rs drives the supervisor;    *)
(*   SpecApi  the same application, where the owner of the supervisor      *)
(*            calls the public methods start and stop in any order before  *)
(*            handing it over (what the type permits).                     *)
(*                                                                         *)
(* Operating-system model (std::process::Child):                           *)
(*   a process is "running", then "killed" (termination requested, exit    *)
(*   pending) or directly "exited" (it stopped on its own);                *)
(*   kill() on a running child terminates it and returns Ok; on a child    *)
(*   that has already exited it returns Ok or Err depending on platform    *)
(*   and toolchain, and changes nothing;                                   *)
(*   wait() returns only once the child has exited, with Ok or Err.        *)
(***************************************************************************)
EXTENDS Integers, Sequences, FiniteSets

(* ---------------------------------------------------------------------- *)
(* Bounds                                                                 *)
(* ---------------------------------------------------------------------- *)

\* Number of backend processes spawned in one behaviour.
MaxProcs == 3

\* Width of the port argument (u16).
PortBits == 16

\* Ports the frontend passes to restart_backend: both ends of u16.
Ports == {0, (2 ^ PortBits) - 1}

(* ---------------------------------------------------------------------- *)
(* Threads                                                                *)
(* ---------------------------------------------------------------------- *)

Main == "main"

\* Concurrent invocations of the restart_backend command.
Tasks == {"r1", "r2"}

\* Concurrent invocations of the get_backend_status command.
Queries == {"q1"}

Threads == {Main} \cup Tasks \cup Queries

\* Threads that hold a &mut BackendProcess at some point.
Owners == {Main} \cup Tasks

(* ---------------------------------------------------------------------- *)
(* Values                                                                 *)
(* ---------------------------------------------------------------------- *)

\* Option<Child>::None; Some(child) is the index of the process in procs.
NoChild == 0

NoOwner == "unlocked"

NoPort == -1

NoPath == "none"

\* exe_dir.join("smartmart-backend.exe")
SiblingPath == "exe_dir/smartmart-backend.exe"

\* exe_dir.join("resources").join("smartmart-backend.exe")
ResourcesPath == "exe_dir/resources/smartmart-backend.exe"

possible_paths == <<SiblingPath, ResourcesPath>>

\* Outcomes of std::env::current_exe() followed by .parent().
ExeDirOutcomes == {"ok", "current_exe_failed", "no_parent"}

\* The condition of the OS as start meets it: everything works, or one of
\* current_exe(), parent() and spawn() fails.
SysOutcomes == ExeDirOutcomes \cup {"spawn_failed"}

ExeDir(s) == IF s \in ExeDirOutcomes THEN s ELSE "ok"

SpawnOk(s) == s # "spawn_failed"

\* Results are pairs <<tag, message parts>>.
NoRes == <<"None", <<>>>>

OkRes == <<"Ok", <<>>>>

UnitRes == <<"Unit", <<>>>>

Err(msg) == <<"Err", msg>>

IsErr(r) == r[1] = "Err"

Digit(d) == <<"0", "1", "2", "3", "4", "5", "6", "7", "8", "9">>[d + 1]

\* u16::to_string: decimal digits, most significant first, no padding.
RECURSIVE to_string(_)
to_string(n) ==
    IF n < 10 THEN <<Digit(n)>>
    ELSE to_string(n \div 10) \o <<Digit(n % 10)>>

\* A launch with the boot port written into the arguments.
ArgsFixedPort(p) == <<"--host", <<"0", ".", "0", ".", "0", ".", "0">>, "--port",
                      <<"8", "0", "0", "0">>>>

\* Command::new(path).args(&["--host", "0.0.0.0", "--port", &port.to_string()])
Args(p) == <<"--host", <<"0", ".", "0", ".", "0", ".", "0">>, "--port", to_string(p)>>

\* A search that prefers the later candidate.
FindPathLast(f) ==
    IF \E i \in 1..Len(possible_paths) : possible_paths[i] \in f
    THEN possible_paths[CHOOSE i \in 1..Len(possible_paths) :
                            /\ possible_paths[i] \in f
                            /\ \A j \in (i + 1)..Len(possible_paths) :
                                    possible_paths[j] \notin f]
    ELSE NoPath

\* First candidate that exists on disk, in the order of possible_paths.
FindPath(f) ==
    IF \E i \in 1..Len(possible_paths) : possible_paths[i] \in f
    THEN possible_paths[CHOOSE i \in 1..Len(possible_paths) :
                            /\ possible_paths[i] \in f
                            /\ \A j \in 1..(i - 1) : possible_paths[j] \notin f]
    ELSE NoPath

\* A message that names the first candidate only.
NotFoundMsgFirstOnly == <<"backend executable does not exist, tried paths:",
                          possible_paths[1]>>

\* The message of the ok_or_else closure: both candidates, in order.
NotFoundMsg == <<"backend executable does not exist, tried paths:",
                 possible_paths[1], possible_paths[2]>>

ExeDirMsg(e) ==
    IF e = "current_exe_failed" THEN <<"cannot get program path">>
    ELSE <<"cannot get parent directory">>

SpawnMsg == <<"failed to start backend">>

\* A start that resets the handle when it fails.
StartOutcomeClearing(c, ps, f, p, exe, spawnOk) ==
    IF exe # "ok"
    THEN [child |-> NoChild, procs |-> ps, res |-> Err(ExeDirMsg(exe))]
    ELSE IF FindPath(f) = NoPath
    THEN [child |-> NoChild, procs |-> ps, res |-> Err(NotFoundMsg)]
    ELSE IF ~spawnOk
    THEN [child |-> NoChild, procs |-> ps, res |-> Err(SpawnMsg)]
    ELSE [child |-> Len(ps) + 1,
          procs |-> Append(ps, [path |-> FindPath(f), args |-> Args(p),
                                state |-> "running"]),
          res |-> OkRes]

\* A start that ends the process of the handle it replaces.
StartOutcomeClosing(c, ps, f, p, exe, spawnOk) ==
    IF exe # "ok"
    THEN [child |-> c, procs |-> ps, res |-> Err(ExeDirMsg(exe))]
    ELSE IF FindPath(f) = NoPath
    THEN [child |-> c, procs |-> ps, res |-> Err(NotFoundMsg)]
    ELSE IF ~spawnOk
    THEN [child |-> c, procs |-> ps, res |-> Err(SpawnMsg)]
    ELSE [child |-> Len(ps) + 1,
          procs |-> Append([i \in 1..Len(ps) |->
                                IF i = c
                                THEN [path |-> NoPath, args |-> <<>>,
                                      state |-> "exited"]
                                ELSE ps[i]],
                           [path |-> FindPath(f), args |-> Args(p),
                            state |-> "running"]),
          res |-> OkRes]

\* BackendProcess::start as a function of the handle c, the processes ps,
\* the files f, the port p and the outcomes of the two system calls.
StartOutcome(c, ps, f, p, exe, spawnOk) ==
    IF exe # "ok"
    THEN [child |-> c, procs |-> ps, res |-> Err(ExeDirMsg(exe))]
    ELSE IF FindPath(f) = NoPath
    THEN [child |-> c, procs |-> ps, res |-> Err(NotFoundMsg)]
    ELSE IF ~spawnOk
    THEN [child |-> c, procs |-> ps, res |-> Err(SpawnMsg)]
    ELSE [child |-> Len(ps) + 1,
          procs |-> Append(ps, [path |-> FindPath(f), args |-> Args(p),
                                state |-> "running"]),
          res |-> OkRes]

(* ---------------------------------------------------------------------- *)
(* State                                                                  *)
(* ---------------------------------------------------------------------- *)

VARIABLES
    child,      \* BackendProcess.child: NoChild or the index of a process
    procs,      \* every process spawned so far: [path, args, state]
    fs,         \* the candidate paths that exist on disk
    sys,        \* which system call of start the OS refuses at present
    lock,       \* owner of the Mutex<BackendProcess>, or NoOwner
    pc,         \* position of each thread
    ret,        \* where a thread continues when start or stop returns
    port,       \* the port argument of the call a thread is executing
    taken,      \* the Child that stop moved out of self.child, per thread
    kres,       \* result of child.kill() in the current stop, per thread
    wres,       \* result of child.wait() in the current stop, per thread
    res,        \* result of the last call each thread completed
    bypassed    \* start was called while a handle was held

vars == <<child, procs, fs, sys, lock, pc, ret, port, taken, kres, wres, res, bypassed>>

Alive(i) == procs[i].state # "exited"

AliveProcs == {i \in 1..Len(procs) : Alive(i)}

\* Threads executing restart_backend between lock acquisition and release.
InRestart(t) == pc[t] \in {"stop", "kill", "wait", "sleep", "start"}

\* Calls in progress that may still spawn a process.
Pending == {t \in Owners : pc[t] \in {"lock", "stop", "kill", "wait", "sleep", "start"}
                           /\ port[t] # NoPort}

Init ==
    /\ child = NoChild
    /\ procs = <<>>
    /\ fs \in SUBSET {SiblingPath, ResourcesPath}
    /\ sys \in SysOutcomes
    /\ lock = NoOwner
    /\ pc = [t \in Threads |-> IF t = Main THEN "boot" ELSE "idle"]
    /\ ret = [t \in Owners |-> "none"]
    /\ port = [t \in Owners |-> NoPort]
    /\ taken = [t \in Owners |-> NoChild]
    /\ kres = [t \in Owners |-> "None"]
    /\ wres = [t \in Owners |-> "None"]
    /\ res = [t \in Threads |-> NoRes]
    /\ bypassed = FALSE

(* ---------------------------------------------------------------------- *)
(* Environment                                                            *)
(* ---------------------------------------------------------------------- *)

\* Files appear and disappear (install, removal) at any time.
FsChange ==
    /\ \E f \in SUBSET {SiblingPath, ResourcesPath} : f # fs /\ fs' = f
    /\ UNCHANGED <<child, procs, sys, lock, pc, ret, port, taken, kres, wres, res, bypassed>>

\* The OS starts or stops refusing one of the system calls of start.
SysChange ==
    /\ \E s \in SysOutcomes : s # sys /\ sys' = s
    /\ UNCHANGED <<child, procs, fs, lock, pc, ret, port, taken, kres, wres, res, bypassed>>

\* What the process table keeps of a process that has exited.
Exited == [path |-> NoPath, args |-> <<>>, state |-> "exited"]

\* A process exits: on its own (crash) or after it was killed.
ProcExit ==
    /\ \E i \in 1..Len(procs) :
        /\ Alive(i)
        /\ procs' = [procs EXCEPT ![i] = Exited]
    /\ UNCHANGED <<child, fs, sys, lock, pc, ret, port, taken, kres, wres, res, bypassed>>

(* ---------------------------------------------------------------------- *)
(* BackendProcess::stop                                                   *)
(* ---------------------------------------------------------------------- *)

\* A stop that forgets the handle without killing.
StopBranchNever(c) == "return"

\* A stop that kills without looking at the handle.
StopBranchAlways(c) == "kill"

\* if let Some(mut child) = self.child.take(): which way stop goes.
StopBranch(c) == IF c = NoChild THEN "return" ELSE "kill"

\* A stop that borrows the handle and leaves it in the field.
TakeKeeping(c) == c

\* Option::take: what is left in the field.
Take(c) == NoChild

\* self.child.take(): the field is emptied and its value moves to a local.
StopTake(t) ==
    /\ pc[t] = "stop"
    /\ child' = Take(child)
    /\ kres' = [kres EXCEPT ![t] = "None"]
    /\ wres' = [wres EXCEPT ![t] = "None"]
    /\ IF StopBranch(child) = "kill"
       THEN /\ taken' = [taken EXCEPT ![t] = child]
            /\ pc' = [pc EXCEPT ![t] = "kill"]
            /\ UNCHANGED res
       ELSE /\ taken' = [taken EXCEPT ![t] = NoChild]
            /\ pc' = [pc EXCEPT ![t] = ret[t]]
            /\ res' = [res EXCEPT ![t] = UnitRes]
    /\ UNCHANGED <<procs, fs, sys, lock, ret, port, bypassed>>

\* child.kill() and its result.
KillOutcomes(st) == IF st = "running" THEN {"Ok"} ELSE {"Ok", "Err"}

KillState(st) == IF st = "running" THEN "killed" ELSE st

\* let _ = child.kill();
StopKill(t) ==
    /\ pc[t] = "kill"
    /\ taken[t] # NoChild
    /\ \E r \in KillOutcomes(procs[taken[t]].state) :
        kres' = [kres EXCEPT ![t] = r]
    /\ procs' = [procs EXCEPT ![taken[t]].state = KillState(@)]
    /\ pc' = [pc EXCEPT ![t] = "wait"]
    /\ UNCHANGED <<child, fs, sys, lock, ret, port, taken, wres, res, bypassed>>

\* A stop that does not wait for the exit.
WaitReturnsAtOnce(st) == TRUE

\* child.wait() blocks until the child has exited.
WaitReturns(st) == st = "exited"

\* let _ = child.wait(); then stop returns and the local Child is dropped.
StopWait(t) ==
    /\ pc[t] = "wait"
    /\ WaitReturns(procs[taken[t]].state)
    /\ \E r \in {"Ok", "Err"} : wres' = [wres EXCEPT ![t] = r]
    /\ taken' = [taken EXCEPT ![t] = NoChild]
    /\ pc' = [pc EXCEPT ![t] = ret[t]]
    /\ res' = [res EXCEPT ![t] = UnitRes]
    /\ UNCHANGED <<child, procs, fs, sys, lock, ret, port, kres, bypassed>>

(* ---------------------------------------------------------------------- *)
(* main                                                                   *)
(* ---------------------------------------------------------------------- *)

\* let port = 8000;
BootPort == 8000

\* #[cfg(not(debug_assertions))]: backend.start(port) on the new supervisor.
BootRelease ==
    /\ pc[Main] = "boot"
    /\ res[Main] = NoRes
    /\ procs = <<>>
    /\ pc' = [pc EXCEPT ![Main] = "start"]
    /\ port' = [port EXCEPT ![Main] = BootPort]
    /\ ret' = [ret EXCEPT ![Main] = "booted"]
    /\ UNCHANGED <<child, procs, fs, sys, lock, taken, kres, wres, res, bypassed>>

\* #[cfg(debug_assertions)]: the backend is started by hand, nothing to do.
BootDebug ==
    /\ pc[Main] = "boot"
    /\ pc' = [pc EXCEPT ![Main] = "booted"]
    /\ UNCHANGED <<child, procs, fs, sys, lock, ret, port, taken, kres, wres, res, bypassed>>

\* The body of start, run by the owner of the supervisor outside the Mutex.
\* if let Err(e) = backend.start(port) { eprintln!(..) }: main goes on.
MainStart ==
    /\ pc[Main] = "start"
    /\ LET o == StartOutcome(child, procs, fs, port[Main], ExeDir(sys), SpawnOk(sys)) IN
        /\ child' = o.child
        /\ procs' = o.procs
        /\ res' = [res EXCEPT ![Main] = o.res]
    /\ bypassed' = (bypassed \/ child # NoChild)
    /\ pc' = [pc EXCEPT ![Main] = ret[Main]]
    /\ port' = [port EXCEPT ![Main] = NoPort]
    /\ UNCHANGED <<fs, sys, lock, ret, taken, kres, wres>>

\* .manage(Mutex::new(backend)) ... .run(..): the commands become callable.
Manage ==
    /\ pc[Main] = "booted"
    /\ pc' = [pc EXCEPT ![Main] = "run"]
    /\ res' = [res EXCEPT ![Main] = NoRes]
    /\ kres' = [kres EXCEPT ![Main] = "None"]
    /\ wres' = [wres EXCEPT ![Main] = "None"]
    /\ UNCHANGED <<child, procs, fs, sys, lock, ret, port, taken, bypassed>>

\* The application ends and the managed state is dropped: Drop::drop calls
\* self.stop().  Nobody else can hold a reference at that point.
Teardown ==
    /\ pc[Main] = "run"
    /\ \A t \in Tasks \cup Queries : pc[t] = "idle"
    /\ pc' = [pc EXCEPT ![Main] = "stop"]
    /\ ret' = [ret EXCEPT ![Main] = "done"]
    /\ UNCHANGED <<child, procs, fs, sys, lock, port, taken, kres, wres, res, bypassed>>

(* ---------------------------------------------------------------------- *)
(* Commands                                                               *)
(* ---------------------------------------------------------------------- *)

\* The frontend invokes get_backend_status.
StatusCall(q) ==
    /\ pc[Main] = "run"
    /\ pc[q] = "idle"
    /\ pc' = [pc EXCEPT ![q] = "status"]
    /\ res' = [res EXCEPT ![q] = NoRes]
    /\ UNCHANGED <<child, procs, fs, sys, lock, ret, port, taken, kres, wres, bypassed>>

\* A status that looks at the handle.
StatusValueOfHandle ==
    IF child = NoChild THEN <<"Ok", <<"stopped">>>> ELSE <<"Ok", <<"running">>>>

\* Ok("running".to_string())
StatusValue == <<"Ok", <<"running">>>>

\* A status query that waits for the Mutex.
StatusReadyUnlocked(q) == lock = NoOwner

\* get_backend_status takes no state argument and no lock.
StatusReady(q) == TRUE

StatusReturn(q) ==
    /\ pc[q] = "status"
    /\ StatusReady(q)
    /\ pc' = [pc EXCEPT ![q] = "idle"]
    /\ res' = [res EXCEPT ![q] = StatusValue]
    /\ UNCHANGED <<child, procs, fs, sys, lock, ret, port, taken, kres, wres, bypassed>>

\* The frontend invokes restart_backend(port).
RestartCall(t, p) ==
    /\ pc[Main] = "run"
    /\ pc[t] = "idle"
    /\ Len(procs) + Cardinality(Pending) < MaxProcs
    /\ pc' = [pc EXCEPT ![t] = "lock"]
    /\ port' = [port EXCEPT ![t] = p]
    /\ res' = [res EXCEPT ![t] = NoRes]
    /\ UNCHANGED <<child, procs, fs, sys, lock, ret, taken, kres, wres, bypassed>>

\* A lock that never blocks.
CanLockAlways(t) == TRUE

\* Mutex::lock blocks while another thread owns the mutex.
CanLock(t) == lock = NoOwner

\* let mut backend = backend_state.lock().unwrap(); backend.stop() is next.
RestartLock(t) ==
    /\ pc[t] = "lock"
    /\ CanLock(t)
    /\ lock' = t
    /\ pc' = [pc EXCEPT ![t] = "stop"]
    /\ ret' = [ret EXCEPT ![t] = "sleep"]
    /\ UNCHANGED <<child, procs, fs, sys, port, taken, kres, wres, res, bypassed>>

\* std::thread::sleep(Duration::from_secs(1)), the guard still held.
RestartSleep(t) ==
    /\ pc[t] = "sleep"
    /\ pc' = [pc EXCEPT ![t] = "start"]
    /\ UNCHANGED <<child, procs, fs, sys, lock, ret, port, taken, kres, wres, res, bypassed>>

\* A restart that reports a failed kill or wait.
RestartResultOfStop(startRes, k, w) ==
    IF k = "Err" \/ w = "Err" THEN Err(<<"failed to stop backend">>) ELSE startRes

\* backend.start(port)?; Ok(()): what restart_backend returns, given the
\* result of start and the discarded results of kill and wait.
RestartResult(startRes, k, w) == startRes

\* A guard that is kept when start fails.
ReleaseOnOk(t, r) == IF IsErr(r) THEN t ELSE NoOwner

\* The MutexGuard is dropped when restart_backend returns, with Err through
\* `?` as with Ok(()): the owner of the Mutex after thread t returned r.
Release(t, r) == NoOwner

\* backend.start(port)?; Ok(()) and the guard is dropped on either path.
RestartStart(t) ==
    /\ pc[t] = "start"
    /\ LET o == StartOutcome(child, procs, fs, port[t], ExeDir(sys), SpawnOk(sys)) IN
        /\ child' = o.child
        /\ procs' = o.procs
        /\ res' = [res EXCEPT ![t] = RestartResult(o.res, kres[t], wres[t])]
    /\ bypassed' = (bypassed \/ child # NoChild)
    /\ lock' = Release(t, StartOutcome(child, procs, fs, port[t], ExeDir(sys),
                                       SpawnOk(sys)).res)
    /\ pc' = [pc EXCEPT ![t] = "idle"]
    /\ port' = [port EXCEPT ![t] = NoPort]
    /\ kres' = [kres EXCEPT ![t] = "None"]
    /\ wres' = [wres EXCEPT ![t] = "None"]
    /\ UNCHANGED <<fs, sys, ret, taken>>

(* ---------------------------------------------------------------------- *)
(* Direct use of the public methods by the owner                          *)
(* ---------------------------------------------------------------------- *)

\* backend.start(p) with any port, whatever the supervisor holds.
ApiStart(p) ==
    /\ pc[Main] = "boot"
    /\ Len(procs) < MaxProcs
    /\ pc' = [pc EXCEPT ![Main] = "start"]
    /\ port' = [port EXCEPT ![Main] = p]
    /\ ret' = [ret EXCEPT ![Main] = "boot"]
    /\ UNCHANGED <<child, procs, fs, sys, lock, taken, kres, wres, res, bypassed>>

\* backend.stop()
ApiStop ==
    /\ pc[Main] = "boot"
    /\ pc' = [pc EXCEPT ![Main] = "stop"]
    /\ ret' = [ret EXCEPT ![Main] = "boot"]
    /\ UNCHANGED <<child, procs, fs, sys, lock, port, taken, kres, wres, res, bypassed>>

(* ---------------------------------------------------------------------- *)
(* Specifications                                                         *)
(* ---------------------------------------------------------------------- *)

Next ==
    \/ FsChange
    \/ SysChange
    \/ ProcExit
    \/ BootRelease
    \/ BootDebug
    \/ MainStart
    \/ Manage
    \/ Teardown
    \/ \E t \in Owners : StopTake(t)
    \/ \E t \in Owners : StopKill(t)
    \/ \E t \in Owners : StopWait(t)
    \/ \E q \in Queries : StatusCall(q)
    \/ \E q \in Queries : StatusReturn(q)
    \/ \E t \in Tasks, p \in Ports : RestartCall(t, p)
    \/ \E t \in Tasks : RestartLock(t)
    \/ \E t \in Tasks : RestartSleep(t)
    \/ \E t \in Tasks : RestartStart(t)

Spec == Init /\ [][Next]_vars

NextApi ==
    \/ Next
    \/ \E p \in Ports : ApiStart(p)
    \/ ApiStop

SpecApi == Init /\ [][NextApi]_vars

\* A child that was killed exits.
KilledExit ==
    /\ ProcExit
    /\ \E i \in 1..Len(procs) :
        procs[i].state = "killed" /\ procs'[i].state = "exited"

\* A restart_backend call that runs keeps running: each of its steps is
\* taken when it stays possible, and a call blocked in Mutex::lock gets the
\* mutex when it is free again and again.
TaskFair(t) ==
    /\ SF_vars(RestartLock(t))
    /\ WF_vars(StopTake(t))
    /\ WF_vars(StopKill(t))
    /\ WF_vars(StopWait(t))
    /\ WF_vars(RestartSleep(t))
    /\ WF_vars(RestartStart(t))

\* The application without status queries, which touch neither the lock
\* nor the supervisor.
NextRestarts ==
    \/ FsChange
    \/ SysChange
    \/ ProcExit
    \/ BootRelease
    \/ BootDebug
    \/ MainStart
    \/ Manage
    \/ Teardown
    \/ \E t \in Owners : StopTake(t)
    \/ \E t \in Owners : StopKill(t)
    \/ \E t \in Owners : StopWait(t)
    \/ \E t \in Tasks, p \in Ports : RestartCall(t, p)
    \/ \E t \in Tasks : RestartLock(t)
    \/ \E t \in Tasks : RestartSleep(t)
    \/ \E t \in Tasks : RestartStart(t)

\* The application with running restart calls; whether a killed child ever
\* exits is left open.
SpecFair == Init /\ [][NextRestarts]_vars /\ \A t \in Tasks : TaskFair(t)

(* ---------------------------------------------------------------------- *)
(* Properties                                                             *)
(* ---------------------------------------------------------------------- *)

\* Thread t completes the body of start in this step.
StartStep(t) == pc[t] = "start" /\ pc'[t] # "start"

\* Thread t returns from stop in this step.
StopReturn(t) == pc[t] \in {"stop", "wait"} /\ pc'[t] \notin {"stop", "kill", "wait"}

\* The Child values the supervisor's code owns: the field, and the value
\* stop has moved out of the field and is killing.
Handles == ({child} \cup {taken[t] : t \in Owners}) \ {NoChild}

\* Some owner is inside stop, between take and the return of wait.
Stopping == \E t \in Owners : pc[t] \in {"kill", "wait"}

\* C1: restarts exclude each other: at most one restart_backend call is
\* between its lock acquisition and its release (stop, kill, wait, grace
\* period, start), that call owns the Mutex, and no stop or start step of
\* another restart happens in between.
C1_RestartMutualExclusion ==
    /\ \A t1, t2 \in Tasks : InRestart(t1) /\ InRestart(t2) => t1 = t2
    /\ \A t \in Tasks : InRestart(t) => lock = t

\* C1 witness: one restart is in its grace period, after its stop, while a
\* restart with another port waits for the lock.
C1_Witness ==
    \E t1, t2 \in Tasks :
        /\ pc[t1] = "sleep"
        /\ pc[t2] = "lock"
        /\ port[t1] # port[t2]
        /\ Len(procs) > 0

\* C2: as long as start was never called while a handle was held, the
\* supervisor owns at most one handle, every launched process that is
\* still alive is the one the handle refers to (outside stop: the one the
\* field refers to), and at most one launched process is alive.
C2_AtMostOneHandle ==
    ~bypassed =>
        /\ Cardinality(Handles) <= 1
        /\ AliveProcs \subseteq Handles
        /\ ~Stopping => AliveProcs \subseteq {child}
        /\ Cardinality(AliveProcs) <= 1

\* C2 witness: the application runs, a restart has succeeded, the third
\* process launched is alive and is the one the handle refers to, and the
\* two launched before it have exited.
C2_Witness ==
    /\ ~bypassed
    /\ pc[Main] = "run"
    /\ Len(procs) = 3
    /\ child = 3
    /\ AliveProcs = {3}
    /\ \E t \in Tasks : res[t] = OkRes

\* C3: when the supervisor is dropped, the process its handle referred to
\* has exited and the handle is gone once drop has finished; a drop without
\* a handle returns at once, changes nothing and does not fail; after the
\* application's teardown no launched process is alive.
C3_TeardownGuarantee ==
    [][/\ (pc[Main] = "wait" /\ ret[Main] = "done" /\ pc'[Main] # "wait") =>
            /\ pc'[Main] = "done"
            /\ procs'[taken[Main]].state = "exited"
            /\ child' = NoChild
            /\ taken'[Main] = NoChild
            /\ AliveProcs' = {}
       /\ (pc[Main] = "stop" /\ ret[Main] = "done" /\ pc'[Main] # "stop"
           /\ child = NoChild) =>
            /\ pc'[Main] = "done"
            /\ res'[Main] = UnitRes
            /\ child' = NoChild
            /\ procs' = procs
       /\ (pc[Main] = "stop" /\ ret[Main] = "done" /\ pc'[Main] # "stop"
           /\ child # NoChild) =>
            /\ pc'[Main] = "kill"
            /\ taken'[Main] = child
      ]_vars

\* C3 witness: teardown has finished after killing and reaping the process
\* the handle referred to.
C3_Witness ==
    /\ pc[Main] = "done"
    /\ kres[Main] = "Ok"
    /\ wres[Main] = "Ok"
    /\ child = NoChild
    /\ Len(procs) > 0

\* C4 as stated: a status query returns only while no restart holds the
\* lock.
C4_StatusExcludedByRestart ==
    [][\A q \in Queries :
        (pc[q] = "status" /\ pc'[q] = "idle") => lock = NoOwner]_vars

\* C4 amended: restarts exclude each other (the lock is owned exactly by
\* the restart between acquisition and release), while a status query
\* takes no lock: it can return in every state, also while a restart holds
\* the lock.
C4_StatusNotExcluded ==
    /\ \A t \in Tasks : InRestart(t) <=> lock = t
    /\ \A q \in Queries : pc[q] = "status" => ENABLED StatusReturn(q)

\* C4 witness: a status query is pending while a restart holds the lock.
C4_Witness ==
    \E q \in Queries, t \in Tasks :
        /\ pc[q] = "status"
        /\ lock = t
        /\ pc[t] = "sleep"

\* The value of a decimal digit character.
DigitVal(ch) == CHOOSE d \in 0..9 : Digit(d) = ch

\* The number a sequence of decimal digits denotes.
RECURSIVE ParseDec(_)
ParseDec(ds) ==
    IF Len(ds) = 0 THEN 0
    ELSE 10 * ParseDec(SubSeq(ds, 1, Len(ds) - 1)) + DigitVal(ds[Len(ds)])

\* This step launches exactly one process, with host 0.0.0.0 and port p,
\* and stores its handle.
LaunchesOne(p) ==
    /\ Len(procs') = Len(procs) + 1
    /\ SubSeq(procs', 1, Len(procs)) = procs
    /\ LET n == procs'[Len(procs')] IN
        /\ n.state = "running"
        /\ n.path \in fs
        /\ Len(n.args) = 4
        /\ n.args[1] = "--host"
        /\ n.args[2] = <<"0", ".", "0", ".", "0", ".", "0">>
        /\ n.args[3] = "--port"
        /\ Len(n.args[4]) >= 1
        /\ Len(n.args[4]) > 1 => n.args[4][1] # "0"
        /\ ParseDec(n.args[4]) = p
    /\ child' = Len(procs')

\* own-path resolution fails at present
ExeDirFails == sys \in {"current_exe_failed", "no_parent"}

\* C5 as stated: start on an empty supervisor with a candidate executable
\* on disk (its directory resolved) returns success and launches one
\* process with that port.
C5_StartSucceedsWhenPresent ==
    [][\A t \in Owners :
        (StartStep(t) /\ child = NoChild /\ fs # {} /\ ~ExeDirFails) =>
            (res'[t] = OkRes /\ LaunchesOne(port[t]))]_vars

\* C5 amended: for every port, start on an empty supervisor with a
\* candidate executable on disk, when own-path resolution and the OS spawn
\* succeed, returns success, launches exactly one process with host
\* 0.0.0.0 and exactly that port and stores its handle; a stop that finds
\* a handle kills that process, returns only when it has exited and leaves
\* no handle.
C5_StartStopEndToEnd ==
    [][\A t \in Owners :
        /\ (StartStep(t) /\ child = NoChild /\ fs # {} /\ sys = "ok") =>
                (res'[t] = OkRes /\ LaunchesOne(port[t]))
        /\ (pc[t] = "stop" /\ pc'[t] # "stop" /\ child # NoChild) =>
                (pc'[t] = "kill" /\ taken'[t] = child /\ child' = NoChild)
        /\ (pc[t] = "kill" /\ pc'[t] # "kill") =>
                (pc'[t] = "wait" /\ procs'[taken[t]].state # "running")
        /\ (pc[t] = "wait" /\ pc'[t] # "wait") =>
                /\ pc'[t] = ret[t]
                /\ res'[t] = UnitRes
                /\ procs'[taken[t]].state = "exited"
                /\ child' = NoChild
                /\ taken'[t] = NoChild
      ]_vars

\* C5 witness: the owner started one backend on the empty supervisor and
\* then stopped it: the process was killed and reaped, no handle is left.
C5_Witness ==
    /\ pc[Main] = "boot"
    /\ res[Main] = UnitRes
    /\ kres[Main] = "Ok"
    /\ wres[Main] = "Ok"
    /\ child = NoChild
    /\ Len(procs) = 1
    /\ AliveProcs = {}

\* C6 as stated: after a failed start the supervisor holds no handle,
\* whatever it held when start was called.
C6_FailedStartLeavesNoHandle ==
    [][\A t \in Owners :
        (StartStep(t) /\ IsErr(res'[t])) => child' = NoChild]_vars

\* C6 amended: start fails exactly when own-path resolution fails, no
\* candidate exists or the spawn fails; a failed start launches nothing,
\* leaves the handle as it was and returns without a retry; where the
\* application calls start (at boot on the new supervisor, in restart after
\* stop) the supervisor therefore holds no handle afterwards.
C6_FailedStartKeepsHandle ==
    [][\A t \in Owners :
        StartStep(t) =>
            /\ IsErr(res'[t]) <=> (sys # "ok" \/ fs = {})
            /\ IsErr(res'[t]) =>
                /\ child' = child
                /\ procs' = procs
                /\ pc'[t] = (IF t \in Tasks THEN "idle" ELSE ret[t])
                /\ (t \in Tasks \/ ret[t] = "booted") => child' = NoChild
      ]_vars

\* C6 witness: a start called by the owner while a live process was held
\* has failed, and the handle to that process is still there.
C6_Witness ==
    /\ pc[Main] = "boot"
    /\ IsErr(res[Main])
    /\ child # NoChild
    /\ Alive(child)

\* C7: a stop that finds no handle returns at once without failing, kills
\* nothing and leaves the handle absent and every process as it was; every
\* stop returns with the handle absent, so a second stop is that no-op; and
\* a start after no-op stops on a supervisor that never launched anything
\* does what a start on a new supervisor does.
C7_StopIdempotent ==
    [][\A t \in Owners :
        /\ (pc[t] = "stop" /\ pc'[t] # "stop" /\ child = NoChild) =>
                /\ pc'[t] = ret[t]
                /\ res'[t] = UnitRes
                /\ kres'[t] = "None"
                /\ wres'[t] = "None"
                /\ child' = NoChild
                /\ taken' = taken
                /\ procs' = procs
                /\ lock' = lock
        /\ StopReturn(t) => (child' = NoChild /\ taken'[t] = NoChild)
        /\ (StartStep(t) /\ res[t] = UnitRes /\ kres[t] = "None"
            /\ procs = <<>>) =>
                IF sys = "ok" /\ fs # {}
                THEN res'[t] = OkRes /\ LaunchesOne(port[t]) /\ child' = 1
                ELSE IsErr(res'[t]) /\ child' = NoChild /\ procs' = <<>>
      ]_vars

\* C7 witness: the owner is in start right after a stop that found no
\* handle, on a supervisor that has not launched anything.
C7_Witness ==
    /\ pc[Main] = "start"
    /\ res[Main] = UnitRes
    /\ kres[Main] = "None"
    /\ child = NoChild
    /\ procs = <<>>

\* C8: for every combination of existing candidates, a start that gets to
\* launch launches the sibling candidate if it exists and the resources
\* candidate only if the sibling one does not; it launches whenever some
\* candidate exists and the system calls succeed.
C8_PathPriority ==
    [][\A t \in Owners :
        StartStep(t) =>
            /\ Len(procs') > Len(procs) =>
                /\ Len(procs') = Len(procs) + 1
                /\ procs'[Len(procs')].path \in fs
                /\ SiblingPath \in fs => procs'[Len(procs')].path = SiblingPath
                /\ procs'[Len(procs')].path = ResourcesPath => SiblingPath \notin fs
            /\ (sys = "ok" /\ fs # {}) => Len(procs') = Len(procs) + 1
      ]_vars

\* C8 witness: both candidates exist and the process the handle refers to
\* runs the sibling one.
C8_Witness ==
    /\ fs = {SiblingPath, ResourcesPath}
    /\ child # NoChild
    /\ procs[child].state = "running"
    /\ procs[child].path = SiblingPath

\* C9: when own-path resolution succeeds and neither candidate exists,
\* start fails with a message that lists the sibling and the resources
\* path, launches nothing and leaves the handle as it was.
C9_NotFoundEnumeration ==
    [][\A t \in Owners :
        (StartStep(t) /\ fs = {} /\ ~ExeDirFails) =>
            /\ IsErr(res'[t])
            /\ \E i, j \in 1..Len(res'[t][2]) :
                /\ i < j
                /\ res'[t][2][i] = SiblingPath
                /\ res'[t][2][j] = ResourcesPath
            /\ procs' = procs
            /\ child' = child
      ]_vars

\* C9 witness: a restart has returned the not-found error, which names both
\* paths, and no process is alive.
C9_Witness ==
    \E t \in Tasks :
        /\ pc[t] = "idle"
        /\ IsErr(res[t])
        /\ \E i, j \in 1..Len(res[t][2]) :
            res[t][2][i] = SiblingPath /\ res[t][2][j] = ResourcesPath
        /\ child = NoChild
        /\ Len(procs) > 0

\* The error start produces in the present condition of the OS and disk.
StartError ==
    IF ExeDirFails THEN Err(ExeDirMsg(sys))
    ELSE IF fs = {} THEN Err(NotFoundMsg)
    ELSE Err(SpawnMsg)

\* C10: restart_backend returns success exactly when its start launched a
\* process and stored its handle, and otherwise the error of that start;
\* whatever kill and wait returned, stop goes on to wait, the grace period
\* and start, and their failures are not returned.
C10_RestartSurfacesStartErrors ==
    [][\A t \in Tasks :
        /\ StartStep(t) =>
            /\ res'[t] = OkRes <=> (Len(procs') = Len(procs) + 1
                                     /\ child' = Len(procs'))
            /\ res'[t] = OkRes <=> (sys = "ok" /\ fs # {})
            /\ res'[t] # OkRes => res'[t] = StartError
            /\ pc'[t] = "idle"
            /\ lock' = NoOwner
        /\ (pc[t] = "kill" /\ pc'[t] # "kill") => pc'[t] = "wait"
        /\ (pc[t] = "wait" /\ pc'[t] # "wait") =>
                (pc'[t] = "sleep" /\ ~IsErr(res'[t]))
        /\ (pc[t] = "sleep" /\ pc'[t] # "sleep") => pc'[t] = "start"
      ]_vars

\* C10 witness: kill and wait both failed in the stop of a restart, and the
\* restart has gone through the grace period to its start.
C10_Witness ==
    \E t \in Tasks :
        /\ pc[t] = "start"
        /\ lock = t
        /\ kres[t] = "Err"
        /\ wres[t] = "Err"

\* C11: in every state, with or without a handle, get_backend_status
\* returns Ok("running"), and the step changes nothing of the supervisor,
\* the processes or the lock.
C11_StatusUnconditional ==
    [][\A q \in Queries :
        (pc[q] = "status" /\ pc'[q] # "status") =>
            /\ pc'[q] = "idle"
            /\ res'[q] = <<"Ok", <<"running">>>>
            /\ UNCHANGED <<child, procs, lock, taken, kres, wres, ret, port>>
      ]_vars

\* C11 witness: the status query has returned "running" although no
\* process was ever launched and the supervisor holds no handle.
C11_Witness ==
    \E q \in Queries :
        /\ pc[q] = "idle"
        /\ res[q] = <<"Ok", <<"running">>>>
        /\ child = NoChild
        /\ procs = <<>>

\* C12 as stated: while stop kills and waits, the handle is still present
\* in the supervisor.
C12_HandlePresentUntilWaited ==
    \A t \in Owners : pc[t] \in {"kill", "wait"} => child # NoChild

\* C12 amended: stop first moves the handle out of the field, which is
\* empty from then on, then kills the process, then waits, and gives the
\* handle up only when wait has returned and the process has exited; the
\* value moved out is held exactly while stop kills and waits, and a
\* process is killed only through it.
C12_StopTakesThenKillsThenWaits ==
    /\ \A t \in Owners :
        /\ taken[t] # NoChild <=> pc[t] \in {"kill", "wait"}
        /\ pc[t] \in {"kill", "wait"} => child = NoChild
        /\ pc[t] = "kill" => kres[t] = "None" /\ wres[t] = "None"
        /\ pc[t] = "wait" =>
            (kres[t] # "None" /\ wres[t] = "None"
             /\ procs[taken[t]].state # "running")
    /\ \A i \in 1..Len(procs) :
        procs[i].state = "killed" => \E t \in Owners : taken[t] = i /\ pc[t] = "wait"

\* C12 witness: stop has taken the handle of a running process and has not
\* killed it yet; the field is already empty.
C12_Witness ==
    \E t \in Owners :
        /\ pc[t] = "kill"
        /\ child = NoChild
        /\ procs[taken[t]].state = "running"

\* C13: a restart moves from lock acquisition to stop, through kill and
\* wait when a handle was held, to the grace period, to start and to the
\* release of the lock, in this order; a process is spawned only by a
\* start step, and in a restart only by the lock owner after the process
\* tracked before has exited and been waited for.
C13_RestartStepOrder ==
    [][/\ \A t \in Tasks :
            /\ (pc[t] = "lock" /\ pc'[t] # "lock") =>
                    (pc'[t] = "stop" /\ lock = NoOwner /\ lock' = t)
            /\ (pc[t] = "stop" /\ pc'[t] # "stop") =>
                    /\ lock = t /\ lock' = t
                    /\ pc'[t] = (IF child = NoChild THEN "sleep" ELSE "kill")
            /\ (pc[t] = "kill" /\ pc'[t] # "kill") =>
                    (lock = t /\ lock' = t /\ pc'[t] = "wait")
            /\ (pc[t] = "wait" /\ pc'[t] # "wait") =>
                    /\ lock = t /\ lock' = t
                    /\ pc'[t] = "sleep"
                    /\ procs[taken[t]].state = "exited"
            /\ (pc[t] = "sleep" /\ pc'[t] # "sleep") =>
                    (lock = t /\ lock' = t /\ pc'[t] = "start"
                     /\ procs' = procs /\ child' = child)
            /\ (pc[t] = "start" /\ pc'[t] # "start") =>
                    /\ lock = t /\ lock' = NoOwner
                    /\ pc'[t] = "idle"
                    /\ child = NoChild
                    /\ taken[t] = NoChild
                    /\ AliveProcs = {}
       /\ Len(procs') > Len(procs) => \E t \in Owners : StartStep(t)
      ]_vars

\* C13 witness: a restart has killed and reaped the process tracked before,
\* has slept and is about to start the new one, holding the lock.
C13_Witness ==
    \E t \in Tasks :
        /\ pc[t] = "start"
        /\ lock = t
        /\ kres[t] = "Ok"
        /\ wres[t] = "Ok"
        /\ Len(procs) > 0
        /\ AliveProcs = {}

C15_StartReplacesWithoutClosing ==
    [][/\ \A t \in Owners :
            (StartStep(t) /\ res'[t] = OkRes /\ child # NoChild) =>
                /\ child' = Len(procs')
                /\ child' # child
                /\ procs'[child] = procs[child]
                /\ procs'[child'].state = "running"
                /\ Alive(child) => {child, child'} \subseteq AliveProcs'
                /\ child \notin ({child'} \cup {taken'[u] : u \in Owners})
       /\ \A i \in 1..Len(procs) :
            /\ i \notin Handles => i \notin ({child'} \cup {taken'[u] : u \in Owners})
            /\ (procs[i].state = "running" /\ procs'[i].state = "killed") =>
                    \E u \in Owners : taken[u] = i /\ pc[u] = "kill"
      ]_vars

\* C15 witness: start was called on a held handle, the application has
\* since been torn down, and a process launched by the supervisor is still
\* running.
C15_Witness ==
    /\ bypassed
    /\ pc[Main] = "done"
    /\ child = NoChild
    /\ \E i \in 1..Len(procs) : procs[i].state = "running"

\* Thread t enters stop's take or completes start in this step: the steps
\* that read, set or clear the handle.
AccessStep(t) == StartStep(t) \/ (pc[t] = "stop" /\ pc'[t] # "stop")

\* C16 as stated: every step that reads, sets or clears the handle is taken
\* by a thread that holds the lock.
C16_HandleOnlyUnderLock ==
    [][\A t \in Owners : AccessStep(t) => lock = t]_vars

\* C16 amended: the handle changes only in stop and start steps; in a
\* restart these are taken by the thread that owns the lock; the start at
\* boot and the stop of teardown are taken by main without the lock, before
\* the supervisor is handed to tauri or after the last command has
\* returned, when no command runs and nobody owns the lock.
C16_LockOrExclusiveOwner ==
    [][/\ \A t \in Tasks : AccessStep(t) => lock = t
       /\ AccessStep(Main) =>
            /\ lock = NoOwner
            /\ \A u \in Tasks \cup Queries : pc[u] = "idle"
            /\ ret[Main] \in {"boot", "booted", "done"}
       /\ child' # child => \E t \in Owners : AccessStep(t)
      ]_vars

\* C16 witness: a restart that owns the lock has taken the handle out of
\* the field while another restart waits for the lock.
C16_Witness ==
    \E t, u \in Tasks :
        /\ pc[t] = "kill"
        /\ lock = t
        /\ taken[t] # NoChild
        /\ pc[u] = "lock"

\* C17: when a running process exits on its own, the handle and every
\* other part of the supervisor stay as they are; the handle is set only by
\* a successful start, to the process it launched, and cleared only by the
\* take of a stop; a process is launched only by the start of a call.
C17_CrashNotDetected ==
    [][/\ (\E i \in 1..Len(procs) :
                procs[i].state = "running" /\ procs'[i].state = "exited") =>
            /\ Len(procs') = Len(procs)
            /\ UNCHANGED <<child, taken, lock, pc, ret, port, res, kres, wres>>
       /\ (child' # child /\ child' # NoChild) =>
            \E t \in Owners :
                /\ StartStep(t)
                /\ res'[t] = OkRes
                /\ Len(procs') = Len(procs) + 1
                /\ child' = Len(procs')
       /\ (child # NoChild /\ child' = NoChild) =>
            \E t \in Owners :
                pc[t] = "stop" /\ pc'[t] = "kill" /\ taken'[t] = child
       /\ Len(procs') > Len(procs) =>
            \E t \in Owners : StartStep(t) /\ port[t] # NoPort
      ]_vars

\* C17 witness: the application runs, no command is in progress, and the
\* handle refers to a process that has exited.
C17_Witness ==
    /\ pc[Main] = "run"
    /\ \A t \in Tasks : pc[t] = "idle"
    /\ child # NoChild
    /\ procs[child].state = "exited"

\* C18: when the start of a restart fails, nothing is launched, the
\* supervisor holds no handle, no process launched by the supervisor is
\* alive, and the call returns the error and releases the lock; a restart
\* whose start finds a candidate and a working OS launches a backend.
C18_RestartNoRollback ==
    [][\A t \in Tasks :
        /\ (StartStep(t) /\ IsErr(res'[t])) =>
                /\ procs' = procs
                /\ child' = NoChild
                /\ AliveProcs' = {}
                /\ lock' = NoOwner
                /\ pc'[t] = "idle"
        /\ (StartStep(t) /\ sys = "ok" /\ fs # {}) =>
                /\ res'[t] = OkRes
                /\ Len(procs') = Len(procs) + 1
                /\ child' = Len(procs')
                /\ procs'[child'].state = "running"
      ]_vars

\* C18 witness: one restart has failed and another has launched the
\* backend the handle refers to; every process launched before has exited.
C18_Witness ==
    \E t1, t2 \in Tasks :
        /\ pc[t1] = "idle" /\ IsErr(res[t1])
        /\ pc[t2] = "idle" /\ res[t2] = OkRes
        /\ Len(procs) >= 2
        /\ child = Len(procs)
        /\ AliveProcs = {child}

\* C19: a restart that returns success, holding the lock that no other
\* restart got after it, leaves exactly one launched process alive, the one
\* it launched with its port, which the handle refers to, all earlier ones
\* having exited; and once all restarts have returned success the handle
\* refers to the last process launched and no other launched process is
\* alive.
C19_LastRestartWins ==
    [][/\ \A t \in Tasks :
            (StartStep(t) /\ res'[t] = OkRes) =>
                /\ lock = t
                /\ child' = Len(procs')
                /\ Len(procs') = Len(procs) + 1
                /\ AliveProcs' = {child'}
                /\ \A i \in 1..Len(procs) : procs'[i].state = "exited"
                /\ Len(procs'[child'].args) = 4
                /\ ParseDec(procs'[child'].args[4]) = port[t]
       /\ (pc'[Main] = "run"
           /\ \A t \in Tasks : pc'[t] = "idle" /\ res'[t] = OkRes) =>
                /\ child' = Len(procs')
                /\ AliveProcs' \subseteq {child'}
      ]_vars

\* C19 witness: two restarts have returned success, three processes were
\* launched in all, and the only one alive is the last, with the port of
\* the last restart, which the handle refers to.
C19_Witness ==
    /\ pc[Main] = "run"
    /\ \A t \in Tasks : pc[t] = "idle" /\ res[t] = OkRes
    /\ Len(procs) = 3
    /\ child = 3
    /\ AliveProcs = {3}
    /\ ParseDec(procs[3].args[4]) = (2 ^ PortBits) - 1

====
